---- MODULE Spec2Model ----
(***************************************************************************)
(* A model of rpcore/pipeline_extensions.py (class PipelineExtensions):    *)
(* set_effect, _init_common_stages, add_light / remove_light,              *)
(* add_environment_probe and prepare_scene.                                *)
(*                                                                         *)
(* Three specifications share the variables; each exercises one group of   *)
(* methods and leaves the state of the others alone:                       *)
(*   SpecEffect  set_effect on a small hierarchy of nodepaths              *)
(*   SpecStages  _init_common_stages under a configured resolution scale   *)
(*   SpecScene   prepare_scene / add_light / remove_light on a scene graph *)
(***************************************************************************)
EXTENDS Integers, Sequences, FiniteSets, TLC

VARIABLES
    \* ---- set_effect ----
    hidden,        \* hidden[np][pass]: np.hide(mask) was the last hide/show of the pass
    binding,       \* binding[np][pass]: the shader set on np for the pass, with its sort
    tagStates,     \* the tag manager's states, keyed by pass and effect id
    errors,        \* number of self.error(...) reports
    lastCall,      \* the last set_effect call: arguments, outcome, collaborator calls made
    ncalls,        \* number of set_effect calls so far
    \* ---- _init_common_stages ----
    resolution_scale,  \* settings["pipeline.resolution_scale"], in units of 1/ScaleDen
    stages,            \* stage_mgr's stages, in add_stage order
    \* ---- prepare_scene, add_light, remove_light ----
    scene,         \* the scene graph below scene root: node id -> node
    nextId,        \* next node id the host attaches
    light_mgr,     \* the light manager's lights, in add_light order
    probe_mgr,     \* the probe manager's probes, in add_probe order
    env_probes,    \* plugin_mgr.is_plugin_enabled("env_probes")
    warnings,      \* number of self.warn(...) reports
    lastPrep       \* the last prepare_scene call: scene before, result, calls made

effectVars == <<hidden, binding, tagStates, errors, lastCall, ncalls>>
stageVars  == <<resolution_scale, stages>>
sceneVars  == <<scene, nextId, light_mgr, probe_mgr, env_probes, warnings, lastPrep>>
vars       == <<effectVars, stageVars, sceneVars>>

\* Python's None, as a value comparable with the records of the model.
None == [none |-> TRUE]

(***************************************************************************)
(* set_effect                                                              *)
(***************************************************************************)

\* Bounds of the effect model.
MaxCalls == 2          \* set_effect calls per behaviour

\* Two nodepaths: 0 is Globals.render, 1 a nodepath below it.
NodePaths == {0, 1}

\* The four passes, in the order set_effect handles them.
PassOrder == <<"gbuffer", "shadows", "voxelize", "envmap">>
Passes == {PassOrder[i] : i \in 1..Len(PassOrder)}

\* The option set_effect reads for a pass.
OptionName(p) ==
    CASE p = "gbuffer"  -> "render_gbuffer"
      [] p = "shadows"  -> "render_shadows"
      [] p = "voxelize" -> "render_voxel"
      [] p = "envmap"   -> "render_envmap"

RenderOptions == {OptionName(p) : p \in Passes}

\* Sort offsets set_effect adds per pass.
GBufferOffset == 0
ShadowOffset == 25
VoxelizeOffset == 35
EnvmapOffset == 45

\* A plausible slip: the shadow and voxelize offsets exchanged.
PassOffsetSwapped(p) ==
    CASE p = "gbuffer"  -> GBufferOffset
      [] p = "shadows"  -> VoxelizeOffset
      [] p = "voxelize" -> ShadowOffset
      [] p = "envmap"   -> EnvmapOffset

PassOffset(p) ==
    CASE p = "gbuffer"  -> GBufferOffset
      [] p = "shadows"  -> ShadowOffset
      [] p = "voxelize" -> VoxelizeOffset
      [] p = "envmap"   -> EnvmapOffset

\* The default of the sort parameter, and the sort _set_default_effect passes.
DefaultSort == 30
DefaultEffectSort == -10
\* A sort argument is <<s>>, or <<>> when the caller passes none.
SortArgs == {<<>>, <<DefaultEffectSort>>}

SortOf(sortArg) == IF sortArg = <<>> THEN DefaultSort ELSE sortArg[1]

\* Effect sources: one that loads and one that does not.
LoadableSources == {"effects/default.yaml"}
EffectSources == LoadableSources \cup {"effects/missing.yaml"}

\* Option dictionaries a caller passes: none, or a value for each render option.
OptionDicts == UNION {[S -> BOOLEAN] : S \in {{}, RenderOptions}}

\* The (source, options) pairs passed to set_effect.  Effect.load does not read
\* the options of a source it cannot load, so one dictionary stands for all.
EffectRequests ==
    (LoadableSources \X OptionDicts) \cup ((EffectSources \ LoadableSources) \X {<<>>})

\* Effect.load: the resolved effect, or None when the source cannot be loaded.
\* An option the caller does not pass keeps its default, and the effect id is
\* made of the source and the resolved options.
DefaultOption(o) == TRUE

EffectLoad(effect_src, options) ==
    IF effect_src \notin LoadableSources THEN None
    ELSE LET resolved == [o \in RenderOptions |->
                             IF o \in DOMAIN options THEN options[o]
                             ELSE DefaultOption(o)]
         IN [effect_id |-> <<effect_src, resolved>>, options |-> resolved]

\* effect.get_shader_obj(pass)
ShaderObj(effect, p) == <<effect.effect_id, p>>

\* The state set_effect acts on, threaded through its four blocks: ops is the
\* list of calls made on the nodepath and on the tag manager.
RenderState == [hidden |-> hidden, binding |-> binding, tagStates |-> tagStates,
                ops |-> <<>>]

\* nodepath.hide(mask of p)
Hide(rs, np, p) ==
    [rs EXCEPT !.hidden[np][p] = TRUE,
               !.ops = Append(@, [op |-> "hide", pass |-> p])]

\* nodepath.show(mask of p)
Show(rs, np, p) ==
    [rs EXCEPT !.hidden[np][p] = FALSE,
               !.ops = Append(@, [op |-> "show", pass |-> p])]

\* nodepath.set_shader(shader, sort)
SetShader(rs, np, p, shader, sort) ==
    [rs EXCEPT !.binding[np][p] = [shader |-> shader, sort |-> sort]]

\* tag_mgr.apply_<pass>_state(nodepath, shader, effect_id, sort): registers the
\* state under the effect id and binds it to the nodepath for the pass.
ApplyTagState(rs, np, p, shader, effect_id, sort) ==
    [rs EXCEPT !.binding[np][p] = [shader |-> shader, sort |-> sort],
               !.tagStates = @ \cup {[pass |-> p, id |-> effect_id,
                                      shader |-> shader, sort |-> sort]}]

\* A binding call that refuses to replace a binding of higher sort on the
\* same nodepath.
BindShaderKeepHigher(rs, np, p, shader, effect_id, sort) ==
    LET kept == rs.binding[np][p] # None /\ rs.binding[np][p].sort > sort
        bound == IF kept THEN rs
                 ELSE IF p = "gbuffer" THEN SetShader(rs, np, p, shader, sort)
                 ELSE ApplyTagState(rs, np, p, shader, effect_id, sort)
    IN [bound EXCEPT !.ops = Append(@, [op |-> "bind", pass |-> p,
                                        shader |-> shader, sort |-> sort])]

\* The binding call of a block: set_shader for gbuffer, the tag manager's
\* apply_<pass>_state for the other passes.
BindShader(rs, np, p, shader, effect_id, sort) ==
    LET bound == IF p = "gbuffer" THEN SetShader(rs, np, p, shader, sort)
                 ELSE ApplyTagState(rs, np, p, shader, effect_id, sort)
    IN [bound EXCEPT !.ops = Append(@, [op |-> "bind", pass |-> p,
                                        shader |-> shader, sort |-> sort])]

\* A copy-and-paste slip: every block tests render_gbuffer.
ApplyPassWrongOption(rs, np, effect, p, sort) ==
    IF ~effect.options["render_gbuffer"]
    THEN Hide(rs, np, p)
    ELSE Show(BindShader(rs, np, p, ShaderObj(effect, p), effect.effect_id,
                         PassOffset(p) + sort), np, p)

\* One of the four blocks of set_effect.
ApplyPass(rs, np, effect, p, sort) ==
    IF ~effect.options[OptionName(p)]
    THEN Hide(rs, np, p)
    ELSE Show(BindShader(rs, np, p, ShaderObj(effect, p), effect.effect_id,
                         PassOffset(p) + sort), np, p)

RECURSIVE ApplyPasses(_, _, _, _, _)
ApplyPasses(rs, np, effect, i, sort) ==
    IF i > Len(PassOrder) THEN rs
    ELSE ApplyPasses(ApplyPass(rs, np, effect, PassOrder[i], sort), np, effect,
                     i + 1, sort)

\* set_effect without the check of Effect.load's result: a missing effect is
\* read as one with every option off.
SetEffectResultUnchecked(rs, np, effect, sort) ==
    IF effect = None
    THEN ApplyPasses(rs, np, [effect_id |-> None,
                              options |-> [o \in RenderOptions |-> FALSE]], 1, sort)
    ELSE ApplyPasses(rs, np, effect, 1, sort)

\* The body of set_effect after Effect.load: the state it leaves.
SetEffectResult(rs, np, effect, sort) ==
    IF effect = None THEN rs
    ELSE ApplyPasses(rs, np, effect, 1, sort)

SetEffect(np, effect_src, options, sortArg) ==
    /\ ncalls < MaxCalls
    /\ LET effect == EffectLoad(effect_src, options)
           sort == SortOf(sortArg)
           rs == SetEffectResult(RenderState, np, effect, sort)
       IN /\ hidden' = rs.hidden
          /\ binding' = rs.binding
          /\ tagStates' = rs.tagStates
          /\ errors' = IF effect = None THEN errors + 1 ELSE errors
          /\ lastCall' = [nodepath |-> np, effect |-> effect, sort |-> sort,
                          sortArg |-> sortArg, error |-> effect = None,
                          ops |-> rs.ops]
    /\ ncalls' = ncalls + 1
    /\ UNCHANGED <<stageVars, sceneVars>>

\* The binding in effect on a nodepath: its own, unless a nodepath above it
\* holds one of greater sort.
RECURSIVE EffectiveBinding(_, _, _)
EffectiveBinding(b, np, p) ==
    IF np = 0 THEN b[0][p]
    ELSE LET above == EffectiveBinding(b, np - 1, p)
             own == b[np][p]
         IN IF own = None THEN above
            ELSE IF above = None THEN own
            ELSE IF above.sort > own.sort THEN above ELSE own

(***************************************************************************)
(* _init_common_stages                                                     *)
(***************************************************************************)

ScaleDen == 64         \* resolution scale is counted in units of 1/ScaleDen
MaxScale == 128        \* scales 0..MaxScale/ScaleDen
MaxStages == 12        \* cap on the stage list

\* The tolerance 0.05 of _init_common_stages is 1/ToleranceInv.
ToleranceInv == 20

Abs(x) == IF x < 0 THEN -x ELSE x

\* The test without its tolerance band.
NeedsUpscaleNoBand(s) == s # ScaleDen

\* abs(1 - resolution_scale) > 0.05.  Scales are multiples of 1/ScaleDen, which
\* floating point represents and subtracts from 1 exactly.
NeedsUpscale(s) == Abs(ScaleDen - s) * ToleranceInv > ScaleDen

\* stage_mgr.add_stage
AddStage(st, stage) == Append(st, stage)

\* _init_common_stages: the stage list it leaves.
CommonStages(st, s) ==
    LET s1 == AddStage(st, "AmbientStage")
        s2 == AddStage(s1, "GBufferStage")
        s3 == AddStage(s2, "FinalStage")
        s4 == AddStage(s3, "DownscaleZStage")
        s5 == AddStage(s4, "CombineVelocityStage")
    IN IF NeedsUpscale(s) THEN AddStage(s5, "UpscaleStage") ELSE s5

InitCommonStages ==
    /\ Len(stages) + 6 <= MaxStages
    /\ stages' = CommonStages(stages, resolution_scale)
    /\ UNCHANGED <<resolution_scale, effectVars, sceneVars>>

(***************************************************************************)
(* prepare_scene, add_environment_probe, add_light, remove_light           *)
(***************************************************************************)

MaxNodes == 2          \* nodes the host attaches to the scene per behaviour
MaxApiLights == 1      \* lights held that were passed to add_light by the host
AlphaDen == 4          \* color.w is counted in units of 1/AlphaDen

\* lumens = 100.0 * color.w; lumens are counted in units of 1/AlphaDen too.
LumensPerAlpha == 100
\* probe.border_smoothness = 0.05, in hundredths.
BorderSmoothness == 5

\* A scene node: id, parent (0 is the scene root prepare_scene is given), node
\* type, name, and for lights max_distance and color.w.  Children are attached
\* after their parent.  The other light attributes (position, color.xyz,
\* shadow_caster, shadow_buffer_size, exponent) are copied without a test and
\* are left out.
LightTypes == {"PointLight", "Spotlight"}
MaxDistances == {0, 10}
ColorWs == {AlphaDen \div 2}
ProbeNames == {"ENVPROBE.001"}

NodeShapes ==
    [type : LightTypes, name : {"Lamp"}, max_distance : MaxDistances,
     color_w : ColorWs]
    \cup [type : {"PandaNode"}, name : ProbeNames \cup {"Empty"},
          max_distance : {0}, color_w : {0}]

\* The name matches the pattern ENVPROBE*.
GlobEnvprobe(name) == name \in ProbeNames

Ids(sc) == {n.id : n \in sc}
NodeOf(sc, id) == CHOOSE n \in sc : n.id = id

RECURSIVE SortedIds(_)
SortedIds(S) ==
    IF S = {} THEN <<>>
    ELSE LET m == CHOOSE x \in S : \A y \in S : x <= y
         IN <<m>> \o SortedIds(S \ {m})

ChildIds(sc, id) == {n.id : n \in {c \in sc : c.parent = id}}

\* The nodes below the scene root, in depth-first order.
RECURSIVE Walk(_, _)
Walk(sc, stack) ==
    IF stack = <<>> THEN <<>>
    ELSE <<NodeOf(sc, Head(stack))>>
         \o Walk(sc, SortedIds(ChildIds(sc, Head(stack))) \o Tail(stack))

Descendants(sc) == Walk(sc, SortedIds(ChildIds(sc, 0)))

\* scene.find_all_matches("**/+<type>")
FindByType(sc, type) ==
    LET Match(n) == n.type = type
    IN SelectSeq(Descendants(sc), Match)

\* scene.find_all_matches("**/ENVPROBE*")
FindProbes(sc) ==
    LET Match(n) == GlobEnvprobe(n.name)
    IN SelectSeq(Descendants(sc), Match)

\* id is n or below n.
RECURSIVE IsBelow(_, _, _)
IsBelow(sc, id, n) ==
    \/ id = n
    \/ /\ id \in Ids(sc)
       /\ NodeOf(sc, id).parent # 0
       /\ IsBelow(sc, NodeOf(sc, id).parent, n)

\* A remove_node that leaves the scene as it is.
RemoveNodeNot(sc, n) == sc

\* np.remove_node(): the node leaves the scene, with everything below it.
RemoveNode(sc, n) == {x \in sc : ~IsBelow(sc, x.id, n)}

\* light_mgr.add_light(light)
MgrAddLight(mgr, light) == Append(mgr, light)

\* light_mgr.remove_light(light), light being the i-th the manager holds
MgrRemoveLight(mgr, i) == SubSeq(mgr, 1, i - 1) \o SubSeq(mgr, i + 1, Len(mgr))

RpLumens(color_w) == LumensPerAlpha * color_w

\* The render pipeline light made of a scene light node.
RpLight(type, node) ==
    [type |-> type, radius |-> node.max_distance, lumens |-> RpLumens(node.color_w),
     node |-> node.id]

\* The state prepare_scene acts on, threaded through its three loops.
PrepState ==
    [scene |-> scene, light_mgr |-> light_mgr, probe_mgr |-> probe_mgr,
     warnings |-> warnings, lights |-> <<>>, envprobes |-> <<>>,
     n_add_light |-> 0, n_add_probe |-> 0]

\* One iteration of a light loop.
ConvertLight(ps, rptype, node) ==
    LET rp_light == RpLight(rptype, node)
    IN [ps EXCEPT !.light_mgr = MgrAddLight(@, rp_light),
                  !.n_add_light = @ + 1,
                  !.scene = RemoveNode(@, node.id),
                  !.lights = Append(@, rp_light)]

RECURSIVE ConvertLights(_, _, _)
ConvertLights(ps, rptype, matches) ==
    IF matches = <<>> THEN ps
    ELSE ConvertLights(ConvertLight(ps, rptype, Head(matches)), rptype, Tail(matches))

\* add_environment_probe: [ps, probe].  With the plugin off it warns and
\* returns the placeholder; otherwise the new probe is given to the probe
\* manager, which holds it as its last.
AddEnvironmentProbe(ps, enabled) ==
    IF ~enabled
    THEN [ps |-> [ps EXCEPT !.warnings = @ + 1],
          probe |-> [dummy |-> TRUE, mat |-> None, border_smoothness |-> None]]
    ELSE LET probe == [dummy |-> FALSE, mat |-> None, border_smoothness |-> None]
         IN [ps |-> [ps EXCEPT !.probe_mgr = Append(@, probe),
                               !.n_add_probe = @ + 1],
             probe |-> probe]

\* One iteration of the probe loop.  set_mat on the placeholder does nothing,
\* the assignment of border_smoothness lands on the placeholder itself; a
\* probe proper is the object the probe manager holds.
ConvertProbe(ps, enabled, node) ==
    LET r == AddEnvironmentProbe(ps, enabled)
        probe == IF r.probe.dummy
                 THEN [r.probe EXCEPT !.border_smoothness = BorderSmoothness]
                 ELSE [r.probe EXCEPT !.mat = node.id,
                                      !.border_smoothness = BorderSmoothness]
        mgr == IF r.probe.dummy THEN r.ps.probe_mgr
               ELSE [r.ps.probe_mgr EXCEPT ![Len(r.ps.probe_mgr)] = probe]
    IN [r.ps EXCEPT !.probe_mgr = mgr,
                    !.scene = RemoveNode(@, node.id),
                    !.envprobes = Append(@, probe)]

RECURSIVE ConvertProbes(_, _, _)
ConvertProbes(ps, enabled, matches) ==
    IF matches = <<>> THEN ps
    ELSE ConvertProbes(ConvertProbe(ps, enabled, Head(matches)), enabled, Tail(matches))

\* prepare_scene: each loop finds its nodes in the scene the loop before left.
PrepareSceneResult(ps, enabled) ==
    LET p1 == ConvertLights(ps, "PointLight", FindByType(ps.scene, "PointLight"))
        p2 == ConvertLights(p1, "SpotLight", FindByType(p1.scene, "Spotlight"))
    IN ConvertProbes(p2, enabled, FindProbes(p2.scene))

PrepareScene ==
    /\ LET ps == PrepareSceneResult(PrepState, env_probes)
       IN /\ scene' = ps.scene
          /\ light_mgr' = ps.light_mgr
          /\ probe_mgr' = ps.probe_mgr
          /\ warnings' = ps.warnings
          /\ lastPrep' = [before |-> scene, after |-> ps.scene,
                          lights |-> ps.lights, envprobes |-> ps.envprobes,
                          n_add_light |-> ps.n_add_light,
                          n_add_probe |-> ps.n_add_probe,
                          n_warn |-> ps.warnings - warnings,
                          enabled |-> env_probes,
                          repeat |-> lastPrep # None]
    /\ UNCHANGED <<nextId, env_probes, effectVars, stageVars>>

\* The host attaches a node to the scene (loading a model, say).
AttachNode(parent, shape) ==
    /\ nextId <= MaxNodes
    /\ parent \in Ids(scene) \cup {0}
    /\ scene' = scene \cup {[id |-> nextId, parent |-> parent, type |-> shape.type,
                             name |-> shape.name,
                             max_distance |-> shape.max_distance,
                             color_w |-> shape.color_w]}
    /\ nextId' = nextId + 1
    /\ lastPrep' = None
    /\ UNCHANGED <<light_mgr, probe_mgr, env_probes, warnings, effectVars, stageVars>>

\* Lights the host builds and passes to add_light.
ApiLights ==
    [type : {"PointLight"}, radius : MaxDistances, lumens : {RpLumens(AlphaDen)},
     node : {0}]

IsApiLight(l) == l.node = 0

\* add_light
AddLight(light) ==
    /\ Len(SelectSeq(light_mgr, IsApiLight)) < MaxApiLights
    /\ light_mgr' = MgrAddLight(light_mgr, light)
    /\ UNCHANGED <<scene, nextId, probe_mgr, env_probes, warnings, lastPrep,
                   effectVars, stageVars>>

\* remove_light of a light the manager holds
RemoveLight(i) ==
    /\ i \in 1..Len(light_mgr)
    /\ light_mgr' = MgrRemoveLight(light_mgr, i)
    /\ UNCHANGED <<scene, nextId, probe_mgr, env_probes, warnings, lastPrep,
                   effectVars, stageVars>>

(***************************************************************************)
(* The specifications.  Each starts with no effect applied, no stage       *)
(* registered, an empty scene and empty managers, and draws the inputs of  *)
(* the methods it exercises.                                               *)
(***************************************************************************)
InitEffect ==
    /\ hidden = [np \in NodePaths |-> [p \in Passes |-> FALSE]]
    /\ binding = [np \in NodePaths |-> [p \in Passes |-> None]]
    /\ tagStates = {}
    /\ errors = 0
    /\ lastCall = None
    /\ ncalls = 0
    /\ resolution_scale = ScaleDen
    /\ stages = <<>>
    /\ scene = {}
    /\ nextId = 1
    /\ light_mgr = <<>>
    /\ probe_mgr = <<>>
    /\ env_probes = FALSE
    /\ warnings = 0
    /\ lastPrep = None

InitStages ==
    /\ hidden = [np \in NodePaths |-> [p \in Passes |-> FALSE]]
    /\ binding = [np \in NodePaths |-> [p \in Passes |-> None]]
    /\ tagStates = {}
    /\ errors = 0
    /\ lastCall = None
    /\ ncalls = 0
    /\ resolution_scale \in 0..MaxScale
    /\ stages = <<>>
    /\ scene = {}
    /\ nextId = 1
    /\ light_mgr = <<>>
    /\ probe_mgr = <<>>
    /\ env_probes = FALSE
    /\ warnings = 0
    /\ lastPrep = None

InitScene ==
    /\ hidden = [np \in NodePaths |-> [p \in Passes |-> FALSE]]
    /\ binding = [np \in NodePaths |-> [p \in Passes |-> None]]
    /\ tagStates = {}
    /\ errors = 0
    /\ lastCall = None
    /\ ncalls = 0
    /\ resolution_scale = ScaleDen
    /\ stages = <<>>
    /\ scene = {}
    /\ nextId = 1
    /\ light_mgr = <<>>
    /\ probe_mgr = <<>>
    /\ env_probes \in BOOLEAN
    /\ warnings = 0
    /\ lastPrep = None

NextEffect ==
    \E np \in NodePaths, req \in EffectRequests, sortArg \in SortArgs :
        SetEffect(np, req[1], req[2], sortArg)

SpecEffect == InitEffect /\ [][NextEffect]_vars

NextStages == InitCommonStages

SpecStages == InitStages /\ [][NextStages]_vars

NextScene ==
    \/ PrepareScene
    \/ \E parent \in 0..MaxNodes, shape \in NodeShapes : AttachNode(parent, shape)
    \/ \E light \in ApiLights : AddLight(light)
    \/ \E i \in 1..(MaxNodes + MaxApiLights) : RemoveLight(i)

SpecScene == InitScene /\ [][NextScene]_vars

(***************************************************************************)
(* Claims about set_effect (checked under SpecEffect)                      *)
(***************************************************************************)

\* The calls the last set_effect made for pass p, in order.
OpsOfPass(p) ==
    LET OfPass(o) == o.pass = p
    IN SelectSeq(lastCall.ops, OfPass)

Succeeded == lastCall # None /\ ~lastCall.error

\* C1: after a successful set_effect, for each pass on its own: with the pass's
\* option off the nodepath is hidden from the pass and the call made no binding
\* for it (its only call for the pass is the hide); with the option on the call
\* bound the pass's shader and then showed the nodepath, which is left visible
\* and carrying that shader.  Only the pass's own option enters the outcome.
C1_PassOutcome ==
    Succeeded =>
        \A p \in Passes :
            LET np == lastCall.nodepath
                effect == lastCall.effect
                ops == OpsOfPass(p)
            IN IF effect.options[OptionName(p)]
               THEN /\ Len(ops) = 2
                    /\ ops[1].op = "bind"
                    /\ ops[1].shader = ShaderObj(effect, p)
                    /\ ops[2] = [op |-> "show", pass |-> p]
                    /\ ~hidden[np][p]
                    /\ binding[np][p] # None
                    /\ binding[np][p].shader = ShaderObj(effect, p)
               ELSE /\ ops = <<[op |-> "hide", pass |-> p]>>
                    /\ hidden[np][p]

\* C1 witness: a successful call with shadows off and gbuffer on.
C1_Witness ==
    /\ Succeeded
    /\ ~lastCall.effect.options["render_shadows"]
    /\ lastCall.effect.options["render_gbuffer"]
    /\ hidden[lastCall.nodepath]["shadows"]
    /\ ~hidden[lastCall.nodepath]["gbuffer"]
    /\ binding[lastCall.nodepath]["gbuffer"] # None

\* The priority the claim expects for pass p of a call with sort argument a.
ExpectedPriority(a, p) ==
    (IF a = <<>> THEN 30 ELSE a[1])
    + (CASE p = "gbuffer" -> 0 [] p = "shadows" -> 25
         [] p = "voxelize" -> 35 [] p = "envmap" -> 45)

\* C2: every pass whose option is on is bound at base sort + pass offset (0 for
\* gbuffer, 25 for shadows, 35 for voxelize, 45 for envmap), the base sort being
\* 30 when the caller passes none; shadows at sort 30 are bound at 55.
C2_SortPriority ==
    Succeeded =>
        \A p \in Passes :
            lastCall.effect.options[OptionName(p)] =>
                LET np == lastCall.nodepath
                    want == ExpectedPriority(lastCall.sortArg, p)
                IN /\ binding[np][p].sort = want
                   /\ OpsOfPass(p)[1].sort = want
                   /\ p # "gbuffer" =>
                        [pass |-> p, id |-> lastCall.effect.effect_id,
                         shader |-> ShaderObj(lastCall.effect, p),
                         sort |-> want] \in tagStates
                   /\ (p = "shadows" /\ lastCall.sort = 30) => binding[np][p].sort = 55

\* C2 witness: shadows bound at 55 by a call that passed no sort.
C2_Witness ==
    /\ Succeeded
    /\ lastCall.sortArg = <<>>
    /\ lastCall.effect.options["render_shadows"]
    /\ binding[lastCall.nodepath]["shadows"].sort = 55

\* C3: a set_effect whose effect does not load reports an error and changes
\* nothing: visibility, bindings and the tag manager's states are as before,
\* and no hide, show or bind was called.
C3_FailureChangesNothing ==
    [][lastCall'.error =>
          /\ hidden' = hidden
          /\ binding' = binding
          /\ tagStates' = tagStates
          /\ lastCall'.ops = <<>>
          /\ errors' = errors + 1]_vars

\* C3 witness: a failed call on a nodepath that an earlier call has bound.
C3_Witness ==
    /\ lastCall # None
    /\ lastCall.error
    /\ errors = 1
    /\ \E p \in Passes : binding[lastCall.nodepath][p] # None

\* C4: no pass of a nodepath is at once hidden and shader-bound.
C4_NeverHiddenAndBound ==
    \A np \in NodePaths, p \in Passes : ~(hidden[np][p] /\ binding[np][p] # None)

\* The priority the last call computed for pass p.
CallPriority(call, p) == call.sort + PassOffset(p)

FiveStages == <<"AmbientStage", "GBufferStage", "FinalStage", "DownscaleZStage",
                "CombineVelocityStage">>
SixStages == Append(FiveStages, "UpscaleStage")

\* The scale differs from 1.0 by more than 0.05: |s/ScaleDen - 1| > 5/100.
OutsideBand(s) ==
    \/ 100 * s > 105 * ScaleDen
    \/ 100 * s < 95 * ScaleDen

\* C5: each _init_common_stages call registers ambient, gbuffer, final,
\* downscale-z, combine-velocity in this order, each once, and an upscale stage
\* as sixth and last exactly when the scale differs from 1.0 by more than 0.05:
\* five stages at scale 1.0, six at scale 0.5.
C5_CommonStages ==
    LET want == IF OutsideBand(resolution_scale) THEN SixStages ELSE FiveStages
        n == Len(want)
    IN /\ Len(stages) % n = 0
       /\ \A i \in 1..Len(stages) : stages[i] = want[((i - 1) % n) + 1]
       /\ resolution_scale = ScaleDen => n = 5
       /\ 2 * resolution_scale = ScaleDen => n = 6

\* C5 witness: one call at scale 0.5 has registered six stages, upscale last.
C5_Witness ==
    /\ 2 * resolution_scale = ScaleDen
    /\ Len(stages) = 6
    /\ stages[6] = "UpscaleStage"

(***************************************************************************)
(* Claims about prepare_scene and the light manager (checked under         *)
(* SpecScene)                                                              *)
(***************************************************************************)

Prepared == lastPrep # None

LightNodes(sc) == {n \in sc : n.type \in LightTypes}
ProbeMarkers(sc) == {n \in sc : GlobEnvprobe(n.name)}

\* The positions of a sequence whose element satisfies Test.
Positions(seq, Test(_)) == {i \in 1..Len(seq) : Test(seq[i])}

\* C6: whatever the nesting of light and marker nodes, prepare_scene turns
\* every point light and spot light node of the subtree into exactly one
\* returned and registered Light, with radius = max_distance and
\* lumens = 100 * color.w, and the node is gone from the scene.
C6_EveryLightConverted ==
    Prepared =>
        /\ lastPrep.n_add_light = Len(lastPrep.lights)
        /\ \A n \in LightNodes(lastPrep.before) :
              LET Mine(l) == l.node = n.id
                  at == Positions(lastPrep.lights, Mine)
              IN /\ Cardinality(at) = 1
                 /\ \A i \in at :
                       /\ lastPrep.lights[i].radius = n.max_distance
                       /\ lastPrep.lights[i].lumens = 100 * n.color_w
                 /\ n \notin lastPrep.after

\* C7: prepare_scene consumes every matched node, with the probe plugin on or
\* off: no light node and no probe marker is left in the scene, and a second
\* call with no scene change in between returns empty lists and calls neither
\* add_light nor add_probe.
C7_OneShot ==
    Prepared =>
        /\ LightNodes(lastPrep.after) = {}
        /\ ProbeMarkers(lastPrep.after) = {}
        /\ lastPrep.after \subseteq lastPrep.before
        /\ lastPrep.repeat =>
              /\ lastPrep.lights = <<>>
              /\ lastPrep.envprobes = <<>>
              /\ lastPrep.n_add_light = 0
              /\ lastPrep.n_add_probe = 0
              /\ lastPrep.after = lastPrep.before

\* C7 witness: a second prepare_scene, with the plugin off, after a first one
\* that found a probe marker (the probe manager holds nothing, a warning was
\* given).
C7_Witness ==
    /\ Prepared
    /\ lastPrep.repeat
    /\ ~lastPrep.enabled
    /\ warnings > 0
    /\ nextId > 1
    /\ scene = lastPrep.after

\* C8: every light the light manager holds has radius > 0 and lumens >= 0.
C8_LightsWellFormed ==
    \A i \in 1..Len(light_mgr) :
        light_mgr[i].radius > 0 /\ light_mgr[i].lumens >= 0

\* C9: with the probe plugin off, prepare_scene on a scene with probe markers
\* warns, registers no probe and returns one placeholder per marker; with the
\* plugin on each marker yields exactly one registered probe with
\* border smoothness 0.05.
C9_ProbePerMarker ==
    Prepared =>
        LET markers == ProbeMarkers(lastPrep.before)
        IN /\ Len(lastPrep.envprobes) = Cardinality(markers)
           /\ ~lastPrep.enabled =>
                 /\ lastPrep.n_add_probe = 0
                 /\ markers # {} => lastPrep.n_warn > 0
                 /\ \A i \in 1..Len(lastPrep.envprobes) : lastPrep.envprobes[i].dummy
           /\ lastPrep.enabled =>
                 /\ lastPrep.n_add_probe = Cardinality(markers)
                 /\ lastPrep.n_warn = 0
                 /\ \A n \in markers :
                       LET Mine(q) == ~q.dummy /\ q.mat = n.id
                           at == Positions(lastPrep.envprobes, Mine)
                       IN /\ Cardinality(at) = 1
                          /\ \A i \in at :
                                lastPrep.envprobes[i].border_smoothness = 5

====
